---- MODULE Spec2Model ----
(***************************************************************************)
(* Model of the Task-manager repository.                                   *)
(*                                                                         *)
(*  - src/solver/solver_engine.py : TaskScheduler.solve, the start-slot    *)
(*    CP-SAT scheduler (specification Spec).                               *)
(*  - src/repo/backend/app/routers/apply.py with services_idempotency.py : *)
(*    the POST /apply handler and its process-wide key set                  *)
(*    (specification SpecApply).                                           *)
(*                                                                         *)
(* Instants are whole minutes since midnight of the target day; every      *)
(* instant of one request is in one timezone, so isoformat/fromisoformat   *)
(* and localize keep the minute count.  Python's // is floor division,     *)
(* which is \div of Integers.                                              *)
(***************************************************************************)
EXTENDS Integers, Sequences, FiniteSets

-----------------------------------------------------------------------------
(* Bounds of the model *)

\* Longest input task list of one solve call.
MaxTasks == 2

\* Number of POST /apply requests handled concurrently.
MaxRequests == 3

-----------------------------------------------------------------------------
(* Input choices *)

\* task.get("start_after") / task.get("due_at") absent.
None == -1

\* prefs["work_start"], 09:00.
WorkStarts == {540}

\* prefs["work_end"] minus prefs["work_start"], in minutes.
WindowLengths == {0, 40, 45}

\* prefs["max_overtime_minutes"].
OvertimeChoices == {15}

\* TaskScheduler(slot_minutes=...).
SlotChoices == {15, 20}

\* prefs["buffer_minutes"].
BufferChoices == {0, 15, 20}

\* prefs["deep_work_morning"], in thousandths.
DeepWorkMorningChoices == {600}

\* Input tasks without their id: estimated_minutes, start_after, due_at,
\* priority (in thousandths) and task_type == "deep_work".
TaskChoices ==
    { [est |-> 10, start_after |-> None, due_at |-> None, prio |-> 500, deep |-> FALSE],
      [est |-> 20, start_after |-> 560,  due_at |-> None, prio |-> 900, deep |-> FALSE],
      [est |-> 20, start_after |-> None, due_at |-> 575,  prio |-> 500, deep |-> TRUE],
      [est |-> 10, start_after |-> 560,  due_at |-> 570,  prio |-> 500, deep |-> FALSE],
      [est |-> 90, start_after |-> None, due_at |-> None, prio |-> 900, deep |-> FALSE] }

\* Fixed events: one inside the window with an unaligned start, one that
\* covers the whole window.
EventChoices ==
    { [id |-> "e1", start |-> 550, end |-> 570],
      [id |-> "e2", start |-> 530, end |-> 620] }

\* Idempotency keys of POST /apply; "no-key" stands for a missing header.
KeyChoices == {"k1", "no-key"}

\* Number of events one apply request carries.
EventCounts == {1, 2}

-----------------------------------------------------------------------------
(* Helpers *)

Max(a, b) == IF a >= b THEN a ELSE b

Min(a, b) == IF a <= b THEN a ELSE b

\* Task lists of length 0..MaxTasks; the id of a task is its position, so
\* ids are pairwise distinct.
TaskLists ==
    UNION { [1..n -> TaskChoices] : n \in 0..MaxTasks }

WithIds(ts) ==
    [i \in 1..Len(ts) |->
        [id |-> i, est |-> ts[i].est, start_after |-> ts[i].start_after,
         due_at |-> ts[i].due_at, prio |-> ts[i].prio, deep |-> ts[i].deep]]

\* [t["id"] for t in ts]
Ids(ts) == [i \in 1..Len(ts) |-> ts[i].id]

Range(s) == { s[i] : i \in 1..Len(s) }

-----------------------------------------------------------------------------
(* State *)

VARIABLES
    pc,            \* position of the solve call
    inp,           \* input_data and the scheduler's slot_minutes
    grid,          \* work_start, work_end (effective), total_slots
    norm,          \* tasks (survivors with slot bounds), dropped ids
    blocked_slots, \* set of blocked slot indices
    cpmodel,       \* what the CP-SAT model was built with
    sol,           \* solver status and variable values
    result,        \* the SolverOutput
    seen,          \* services_idempotency._seen
    reqs,          \* the apply requests in flight
    critic,        \* the POST /critic call: request and response
    again,         \* the outcome of a second solve call on the same input
    ms             \* the solve call of the slot-indicator solver (main.py)

solveVars == <<pc, inp, grid, norm, blocked_slots, cpmodel, sol, result>>

applyVars == <<seen, reqs>>

vars == <<pc, inp, grid, norm, blocked_slots, cpmodel, sol, result, seen, reqs,
          critic, again, ms>>

NoInput == [slot_minutes |-> 0, work_start |-> 0, work_end |-> 0,
            allow_overtime |-> FALSE, max_overtime_minutes |-> 0,
            buffer_minutes |-> 0, deep_work_morning |-> 0,
            tasks |-> <<>>, fixed_events |-> {},
            well_formed |-> TRUE]

NoGrid == [work_start |-> 0, work_end |-> 0, total_slots |-> 0]

NoNorm == [tasks |-> <<>>, dropped |-> <<>>]

NoModel == [buffer_slots |-> 0, morning_end_slot |-> 0, deep_work_weight |-> 0]

NoSol == [status |-> "NONE", value |-> <<>>]

\* No second call was made.
NoAgain == [status |-> "NONE"]

NoResult == [success |-> FALSE, scheduled_blocks |-> <<>>,
             unscheduled_tasks |-> <<>>, reason |-> "none"]

-----------------------------------------------------------------------------
(* TaskScheduler.solve, solver_engine.py *)

\* SolverOutput(False, [], ids, {reason}, [...])
Failure(ids, reason) ==
    [success |-> FALSE, scheduled_blocks |-> <<>>,
     unscheduled_tasks |-> ids, reason |-> reason]

\* work_end, pushed out by max_overtime_minutes when allow_overtime.
EffectiveWorkEnd(work_end, allow_overtime, max_overtime_minutes) ==
    IF allow_overtime THEN work_end + max_overtime_minutes ELSE work_end

\* Mutant of TotalSlots: the slot count rounded up, so that the last slot
\* may reach past work_end.
TotalSlots_RoundedUp(work_start, work_end, slot_minutes) ==
    (work_end - work_start + slot_minutes - 1) \div slot_minutes

\* total_minutes // slot_minutes
TotalSlots(work_start, work_end, slot_minutes) ==
    (work_end - work_start) \div slot_minutes

\* Mutant of DurationSlots: the slot count rounded down.
DurationSlots_RoundedDown(estimated_minutes, slot_minutes) ==
    Max(1, estimated_minutes \div slot_minutes)

\* max(1, (estimated_minutes + slot_minutes - 1) // slot_minutes)
DurationSlots(estimated_minutes, slot_minutes) ==
    Max(1, (estimated_minutes + slot_minutes - 1) \div slot_minutes)

EarliestSlot(task, work_start, slot_minutes) ==
    IF task.start_after # None /\ task.start_after > work_start
    THEN Max(0, (task.start_after - work_start) \div slot_minutes)
    ELSE 0

\* Mutant of LatestStartSlot: the deadline slot taken as the latest start,
\* without subtracting the task's duration.
LatestStartSlot_DeadlineAsStart(task, work_start, work_end, slot_minutes, total_slots) ==
    LET duration_slots == (IF (task.est + slot_minutes - 1) \div slot_minutes >= 1
                           THEN (task.est + slot_minutes - 1) \div slot_minutes ELSE 1)
        latest_start_slot == total_slots - duration_slots
    IN IF task.due_at # None /\ task.due_at < work_end
       THEN LET latest_deadline_slot == (task.due_at - work_start) \div slot_minutes
            IN Min(latest_start_slot, latest_deadline_slot)
       ELSE latest_start_slot

LatestStartSlot(task, work_start, work_end, slot_minutes, total_slots) ==
    LET duration_slots == DurationSlots(task.est, slot_minutes)
        latest_start_slot == total_slots - duration_slots
    IN IF task.due_at # None /\ task.due_at < work_end
       THEN LET latest_deadline_slot == (task.due_at - work_start) \div slot_minutes
            IN Min(latest_start_slot, latest_deadline_slot - duration_slots)
       ELSE latest_start_slot

\* The task with its slot bounds, as appended to tasks.
Annotate(task, g, slot_minutes) ==
    [id |-> task.id, est |-> task.est, start_after |-> task.start_after,
     due_at |-> task.due_at, prio |-> task.prio, deep |-> task.deep,
     duration_slots |-> DurationSlots(task.est, slot_minutes),
     earliest_slot |-> EarliestSlot(task, g.work_start, slot_minutes),
     latest_start_slot |->
        LatestStartSlot(task, g.work_start, g.work_end, slot_minutes, g.total_slots)]

\* "Skip tasks that can't fit"
CannotFit(t) ==
    t.earliest_slot > t.latest_start_slot \/ t.latest_start_slot < 0

Fits(t) == ~CannotFit(t)

\* Slots one fixed event blocks.
EventSlots(event, g, slot_minutes) ==
    IF event.end > g.work_start /\ event.start < g.work_end
    THEN LET start_slot == Max(0, (event.start - g.work_start) \div slot_minutes)
             end_slot == Min(g.total_slots,
                             (event.end - g.work_start + slot_minutes - 1) \div slot_minutes)
         IN start_slot .. (end_slot - 1)
    ELSE {}

BlockedSlots(events, g, slot_minutes) ==
    UNION { EventSlots(e, g, slot_minutes) : e \in events }

\* max(1, buffer_minutes // slot_minutes)
BufferSlots(buffer_minutes, slot_minutes) ==
    Max(1, buffer_minutes \div slot_minutes)

\* min(total_slots, 4 * 60 // slot_minutes)
MorningEndSlot(total_slots, slot_minutes) ==
    Min(total_slots, (4 * 60) \div slot_minutes)

\* int(deep_work_morning * 500), deep_work_morning in thousandths
DeepWorkWeight(deep_work_morning) == (deep_work_morning * 500) \div 1000

\* int(priority * 1000), priority in thousandths
PriorityWeight(task) == task.prio

-----------------------------------------------------------------------------
(* Lines 44-74: preferences, the work window, the grid. *)

Call ==
    /\ pc = "idle"
    /\ \E slot \in SlotChoices, ws \in WorkStarts, len \in WindowLengths,
          ot \in BOOLEAN, mo \in OvertimeChoices, buf \in BufferChoices,
          dw \in DeepWorkMorningChoices, ts \in TaskLists,
          evs \in SUBSET EventChoices, wf \in BOOLEAN :
         LET in == [slot_minutes |-> slot, work_start |-> ws, work_end |-> ws + len,
                    allow_overtime |-> ot, max_overtime_minutes |-> mo,
                    buffer_minutes |-> buf, deep_work_morning |-> dw,
                    tasks |-> WithIds(ts), fixed_events |-> evs,
                    well_formed |-> wf]
             we == EffectiveWorkEnd(in.work_end, ot, mo)
             g  == [work_start |-> ws, work_end |-> we,
                    total_slots |-> TotalSlots(ws, we, slot)]
         IN /\ inp' = in
            /\ IF ~wf
               THEN \* datetime.fromisoformat / strptime raises: line 341
                    /\ grid' = NoGrid
                    /\ result' = Failure(Ids(in.tasks), "exception")
                    /\ pc' = "done"
               ELSE IF g.total_slots <= 0
               THEN /\ grid' = g
                    /\ result' = Failure(Ids(in.tasks), "invalid_work_hours")
                    /\ pc' = "done"
               ELSE /\ grid' = g
                    /\ result' = NoResult
                    /\ pc' = "normalize"
    /\ UNCHANGED <<norm, blocked_slots, cpmodel, sol, seen, reqs, critic, again, ms>>

(* Lines 79-119: slot counts and windows of the tasks; tasks that cannot
   fit are dropped with a message. *)
Normalize ==
    /\ pc = "normalize"
    /\ LET all == [i \in 1..Len(inp.tasks) |->
                      Annotate(inp.tasks[i], grid, inp.slot_minutes)]
           tasks == SelectSeq(all, Fits)
           dropped == Ids(SelectSeq(all, CannotFit))
       IN /\ norm' = [tasks |-> tasks, dropped |-> dropped]
          /\ IF tasks = <<>>
             THEN /\ result' = [success |-> TRUE, scheduled_blocks |-> <<>>,
                                unscheduled_tasks |-> Ids(inp.tasks),
                                reason |-> "no_tasks"]
                  /\ pc' = "done"
             ELSE /\ result' = result
                  /\ pc' = "block"
    /\ UNCHANGED <<inp, grid, blocked_slots, cpmodel, sol, seen, reqs, critic, again, ms>>

(* Lines 121-138: the slots the fixed events block. *)
BlockEvents ==
    /\ pc = "block"
    /\ blocked_slots' = BlockedSlots(inp.fixed_events, grid, inp.slot_minutes)
    /\ pc' = "build"
    /\ UNCHANGED <<inp, grid, norm, cpmodel, sol, result, seen, reqs, critic, again, ms>>

-----------------------------------------------------------------------------
(* Lines 140-261: the CP-SAT model.  A value of the model's variables is a
   function from the index of a surviving task to [scheduled, start]; the
   auxiliary booleans of a constraint are quantified where the code creates
   them.  c.OnlyEnforceIf(lits) is (all lits) => c. *)

\* start_var = NewIntVar(earliest_slot, latest_start_slot), scheduled_var.
\* The start of an unscheduled task is constrained by its domain alone and
\* never read (line 280), so it is recorded as the domain's lower bound.
VarValues(t) ==
    { [scheduled |-> FALSE, start |-> t.earliest_slot] } \cup
    { [scheduled |-> TRUE, start |-> k] : k \in t.earliest_slot .. t.latest_start_slot }

\* Lines 158-182, for one pair of tasks.
NoOverlap(a, tasks, i, j) ==
    \E overlap_constraint \in BOOLEAN :
        /\ (a[i].scheduled /\ a[j].scheduled /\ overlap_constraint)
              => a[i].start + tasks[i].duration_slots + 1 <= a[j].start
        /\ (a[i].scheduled /\ a[j].scheduled /\ ~overlap_constraint)
              => a[j].start + tasks[j].duration_slots + 1 <= a[i].start
        /\ (a[i].scheduled /\ a[j].scheduled)
              => (overlap_constraint \/ ~overlap_constraint)

\* Lines 184-195, for one task: slot_conflict is forced to 0, so the
\* equality it gates is never enforced.
AvoidBlocked(a, tasks, i, blocked) ==
    \A slot \in blocked :
        \A task_slot_offset \in 0 .. (tasks[i].duration_slots - 1) :
            \E slot_conflict \in BOOLEAN :
                /\ (a[i].scheduled /\ slot_conflict)
                      => a[i].start + task_slot_offset = slot
                /\ slot_conflict = FALSE

\* Lines 200-221, for one pair of tasks.
BufferBetween(a, tasks, i, j, buffer_slots) ==
    \E buffer_constraint \in BOOLEAN, buffer_constraint_rev \in BOOLEAN :
        /\ (a[i].scheduled /\ a[j].scheduled /\ buffer_constraint)
              => a[i].start + tasks[i].duration_slots + buffer_slots <= a[j].start
        /\ (a[i].scheduled /\ a[j].scheduled /\ buffer_constraint_rev)
              => a[j].start + tasks[j].duration_slots + buffer_slots <= a[i].start
        /\ (a[i].scheduled /\ a[j].scheduled)
              => (buffer_constraint \/ buffer_constraint_rev)

\* Mutant of Constraints: the pairwise constraints of lines 158-221 are
\* left out, as if no literal of a pair were ever forced.
Constraints_WithoutPairs(a, tasks, blocked, buffer_slots) ==
    /\ \A i \in 1..Len(tasks) : a[i] \in VarValues(tasks[i])
    /\ \A i \in 1..Len(tasks) : AvoidBlocked(a, tasks, i, blocked)

\* Every constraint on the start and scheduled variables.
Constraints(a, tasks, blocked, buffer_slots) ==
    /\ \A i \in 1..Len(tasks) : a[i] \in VarValues(tasks[i])
    /\ \A i \in 1..Len(tasks) : \A j \in (i+1)..Len(tasks) :
          /\ NoOverlap(a, tasks, i, j)
          /\ BufferBetween(a, tasks, i, j, buffer_slots)
    /\ \A i \in 1..Len(tasks) : AvoidBlocked(a, tasks, i, blocked)

\* The values of start and scheduled the solver may return.
Solutions(tasks, blocked, buffer_slots) ==
    LET values == UNION { VarValues(tasks[i]) : i \in 1..Len(tasks) }
    IN { a \in [1..Len(tasks) -> values] :
            Constraints(a, tasks, blocked, buffer_slots) }

\* Lines 235-243: the values morning_bonus may take for task i.
MorningValues(a, tasks, i, morning_end_slot) ==
    IF tasks[i].deep \/ tasks[i].prio > 800
    THEN { morning_bonus \in BOOLEAN :
              (a[i].scheduled /\ morning_bonus)
                 => a[i].start + tasks[i].duration_slots <= morning_end_slot }
    ELSE { FALSE }

\* Lines 246-259: the values tardiness_penalty may take for task i.
TardyValues(a, tasks, i, g, slot_minutes) ==
    IF tasks[i].due_at # None
       /\ (tasks[i].due_at - g.work_start) \div slot_minutes < g.total_slots
    THEN LET due_slot == (tasks[i].due_at - g.work_start) \div slot_minutes
         IN { tardiness_penalty \in BOOLEAN :
                 (a[i].scheduled /\ tardiness_penalty)
                    => a[i].start + tasks[i].duration_slots > due_slot }
    ELSE { FALSE }

MaxOf(S) == CHOOSE x \in S : \A y \in S : y <= x

Bit(b) == IF b THEN 1 ELSE 0

\* The largest sum(objective_terms) over the auxiliary booleans, for the
\* values a of start and scheduled.  Each auxiliary boolean occurs in one
\* term and in one constraint of its own, so the terms are maximised apart.
RECURSIVE ObjectiveUpTo(_, _, _, _, _, _)
ObjectiveUpTo(n, a, tasks, g, slot_minutes, m) ==
    IF n = 0 THEN 0
    ELSE ObjectiveUpTo(n - 1, a, tasks, g, slot_minutes, m)
         + Bit(a[n].scheduled) * PriorityWeight(tasks[n])
         + MaxOf({ Bit(mb) * m.deep_work_weight :
                      mb \in MorningValues(a, tasks, n, m.morning_end_slot) })
         + MaxOf({ Bit(tp) * (-2000) :
                      tp \in TardyValues(a, tasks, n, g, slot_minutes) })

Objective(a, tasks, g, slot_minutes, m) ==
    ObjectiveUpTo(Len(tasks), a, tasks, g, slot_minutes, m)

(* Lines 140-261.  With two or more surviving tasks line 180 calls
   BoolVar.And and BoolVar.Or.  Where the installed OR-Tools has no such
   methods the call raises AttributeError, which line 341 catches; where it
   has them (literal_and) they are the conjunction and the disjunction the
   code's comments describe. *)
BuildModel ==
    /\ pc = "build"
    /\ \E literal_and \in BOOLEAN :
          IF Len(norm.tasks) >= 2 /\ ~literal_and
          THEN /\ cpmodel' = cpmodel
               /\ result' = Failure(Ids(inp.tasks), "exception")
               /\ pc' = "done"
          ELSE /\ cpmodel' =
                    [buffer_slots |-> BufferSlots(inp.buffer_minutes, inp.slot_minutes),
                     morning_end_slot |-> MorningEndSlot(grid.total_slots, inp.slot_minutes),
                     deep_work_weight |-> DeepWorkWeight(inp.deep_work_morning)]
               /\ result' = result
               /\ pc' = "solve"
    /\ UNCHANGED <<inp, grid, norm, blocked_slots, sol, seen, reqs, critic, again, ms>>

\* The statuses solver.Solve returns here: the model always has the solution
\* that schedules nothing, so a solver that ends within its 30 s answers
\* OPTIMAL, one that is cut short FEASIBLE or, with no solution yet, UNKNOWN.
Statuses == {"OPTIMAL", "FEASIBLE", "UNKNOWN"}

(* Lines 263-272. *)
\* Mutant of Optimal: any feasible solution is reported as OPTIMAL.
Optimal_AnyFeasible(a, sols, tasks, g, slot_minutes, m) == a \in sols

\* Status OPTIMAL: no solution of the model has a larger objective (line 261).
Optimal(a, sols, tasks, g, slot_minutes, m) ==
    Objective(a, tasks, g, slot_minutes, m) =
        MaxOf({ Objective(b, tasks, g, slot_minutes, m) : b \in sols })

Solve ==
    /\ pc = "solve"
    /\ \E status \in Statuses :
          IF status \notin {"OPTIMAL", "FEASIBLE"}
          THEN /\ sol' = [status |-> status, value |-> <<>>]
               /\ result' = Failure(Ids(norm.tasks), "solver_status")
               /\ pc' = "done"
          ELSE LET sols == Solutions(norm.tasks, blocked_slots, cpmodel.buffer_slots)
               IN \E a \in sols :
                     /\ status = "OPTIMAL"
                           => Optimal(a, sols, norm.tasks, grid, inp.slot_minutes, cpmodel)
                     /\ sol' = [status |-> status, value |-> a]
                     /\ result' = result
                     /\ pc' = "extract"
    /\ UNCHANGED <<inp, grid, norm, blocked_slots, cpmodel, seen, reqs, critic, again, ms>>

-----------------------------------------------------------------------------
(* Lines 274-339: the result. *)

\* work_start + timedelta(minutes=start_slot * slot_minutes)
StartTime(start_slot, g, slot_minutes) ==
    g.work_start + start_slot * slot_minutes

\* start_time + timedelta(minutes=duration_slots * slot_minutes)
EndTime(start_time, duration_slots, slot_minutes) ==
    start_time + duration_slots * slot_minutes

TaskBlock(t, start_slot, g, slot_minutes) ==
    LET start_time == StartTime(start_slot, g, slot_minutes)
    IN [task_id |-> t.id, start |-> start_time,
        end |-> EndTime(start_time, t.duration_slots, slot_minutes),
        block_type |-> "task"]

\* list.sort(key=lambda x: x["start"]): stable, by start.  Every start of
\* one result is an ISO string of the same day and offset, so the order of
\* the strings is the order of the instants.
RECURSIVE InsertByStart(_, _)
InsertByStart(b, s) ==
    IF s = <<>> THEN <<b>>
    ELSE IF s[Len(s)].start <= b.start THEN Append(s, b)
    ELSE Append(InsertByStart(b, SubSeq(s, 1, Len(s) - 1)), s[Len(s)])

RECURSIVE SortByStart(_)
SortByStart(s) ==
    IF s = <<>> THEN <<>>
    ELSE InsertByStart(s[Len(s)], SortByStart(SubSeq(s, 1, Len(s) - 1)))

\* Lines 278-294: the blocks of the scheduled tasks, in task order.
RECURSIVE ScheduledBlocks(_, _, _, _, _)
ScheduledBlocks(n, a, tasks, g, slot_minutes) ==
    IF n = 0 THEN <<>>
    ELSE LET before == ScheduledBlocks(n - 1, a, tasks, g, slot_minutes)
         IN IF a[n].scheduled
            THEN Append(before, TaskBlock(tasks[n], a[n].start, g, slot_minutes))
            ELSE before

\* Lines 278-294: the ids of the tasks the solver left out, in task order.
RECURSIVE UnscheduledTasks(_, _, _)
UnscheduledTasks(n, a, tasks) ==
    IF n = 0 THEN <<>>
    ELSE LET before == UnscheduledTasks(n - 1, a, tasks)
         IN IF a[n].scheduled THEN before ELSE Append(before, tasks[n].id)

\* Lines 299-316: one buffer block after each block that is followed by a
\* gap of at least buffer_minutes.
RECURSIVE BufferBlocks(_, _, _)
BufferBlocks(n, blocks, buffer_minutes) ==
    IF n = 0 THEN <<>>
    ELSE LET before == BufferBlocks(n - 1, blocks, buffer_minutes)
             current_end == blocks[n].end
             next_start == blocks[n + 1].start
         IN IF next_start - current_end >= buffer_minutes
            THEN Append(before, [task_id |-> 0, start |-> current_end,
                                 end |-> current_end + buffer_minutes,
                                 block_type |-> "buffer"])
            ELSE before

Extract ==
    /\ pc = "extract"
    /\ LET n == Len(norm.tasks)
           scheduled_blocks ==
               SortByStart(ScheduledBlocks(n, sol.value, norm.tasks, grid, inp.slot_minutes))
           buffer_blocks ==
               IF scheduled_blocks = <<>> THEN <<>>
               ELSE BufferBlocks(Len(scheduled_blocks) - 1, scheduled_blocks,
                                 inp.buffer_minutes)
           all_blocks == SortByStart(scheduled_blocks \o buffer_blocks)
       IN result' = [success |-> TRUE, scheduled_blocks |-> all_blocks,
                     unscheduled_tasks |-> UnscheduledTasks(n, sol.value, norm.tasks),
                     reason |-> "ok"]
    /\ pc' = "done"
    /\ UNCHANGED <<inp, grid, norm, blocked_slots, cpmodel, sol, seen, reqs, critic, again, ms>>

\* The (task_id, duration) pairs of the 'task' blocks of a list of blocks.
\* Ids are distinct here, so the multiset of pairs is a set.
DurationPairs(blocks) ==
    { <<blocks[k].task_id, blocks[k].end - blocks[k].start>> :
         k \in { j \in 1..Len(blocks) : blocks[j].block_type = "task" } }

(* A second call of solve with the input of the call that has just returned
   success with status OPTIMAL.  Lines 64-261 compute the same tasks, blocked
   slots and model from the same input; the solver (lines 264-267) again
   ends with any status and, for OPTIMAL and FEASIBLE, any solution that
   status allows.  Of the second result the objective value and the
   (task_id, duration) pairs of lines 280-290 are kept. *)
SolveAgain ==
    /\ pc = "done"
    /\ result.success
    /\ sol.status = "OPTIMAL"
    /\ again = NoAgain
    /\ \E status \in Statuses :
          IF status # "OPTIMAL"
          THEN again' = [status |-> status]
          ELSE LET sols == Solutions(norm.tasks, blocked_slots, cpmodel.buffer_slots)
               IN \E a \in sols :
                     /\ Optimal(a, sols, norm.tasks, grid, inp.slot_minutes, cpmodel)
                     /\ again' =
                           [status |-> status,
                            objective |-> Objective(a, norm.tasks, grid,
                                                    inp.slot_minutes, cpmodel),
                            pairs |-> DurationPairs(
                                ScheduledBlocks(Len(norm.tasks), a, norm.tasks,
                                                grid, inp.slot_minutes))]
    /\ UNCHANGED <<pc, inp, grid, norm, blocked_slots, cpmodel, sol, result,
                   seen, reqs, critic, ms>>

-----------------------------------------------------------------------------

InitSolve ==
    /\ pc = "idle"
    /\ inp = NoInput
    /\ grid = NoGrid
    /\ norm = NoNorm
    /\ blocked_slots = {}
    /\ cpmodel = NoModel
    /\ sol = NoSol
    /\ result = NoResult

\* The scheduler keeps nothing between calls.
Return ==
    /\ pc = "done"
    /\ pc' = "idle"
    /\ inp' = NoInput
    /\ grid' = NoGrid
    /\ norm' = NoNorm
    /\ blocked_slots' = {}
    /\ cpmodel' = NoModel
    /\ sol' = NoSol
    /\ result' = NoResult
    /\ again' = NoAgain
    /\ UNCHANGED <<seen, reqs, critic, ms>>

-----------------------------------------------------------------------------
(* POST /apply, routers/apply.py, over services_idempotency._seen.  The
   handler is a plain def, which FastAPI runs on a thread of its pool: the
   requests in flight interleave between is_duplicate_request (line 23) and
   remember_request (line 28). *)

\* f"google:{i}" for i, _ in enumerate(req.events)
GoogleReceipts(n) == [i \in 1..n |-> <<"google:0", "google:1", "google:2">>[i]]

\* f"ADD {e.task_id} {e.start_dt}->{e.end_dt}" for e in req.events
Diff(n) == [i \in 1..n |-> <<"ADD 0", "ADD 1", "ADD 2">>[i]]

\* Mutant of is_duplicate_request: the key of a request without a header
\* is never taken for a duplicate.
is_duplicate_request_HeaderOnly(key) == key \in seen /\ key # "no-key"

\* key in _seen
is_duplicate_request(key) == key \in seen

\* _seen.add(key)
remember_request(key) == seen \cup {key}

NoResponse == [diff |-> <<>>, receipts |-> <<>>]

\* A request arrives: key = x_idempotency_key or "no-key" (line 22).
Receive ==
    /\ Len(reqs) < MaxRequests
    /\ \E key \in KeyChoices, dry_run \in BOOLEAN, n \in EventCounts :
          reqs' = Append(reqs, [key |-> key, dry_run |-> dry_run, events |-> n,
                                at |-> "check", response |-> NoResponse])
    /\ UNCHANGED <<seen, pc, inp, grid, norm, blocked_slots, cpmodel, sol, result, critic, again, ms>>

\* Lines 23-25 of request i.
CheckDuplicate(i) ==
    /\ reqs[i].at = "check"
    /\ IF ~reqs[i].dry_run /\ is_duplicate_request(reqs[i].key)
       THEN reqs' = [reqs EXCEPT ![i].at = "done",
                                 ![i].response = [diff |-> <<>>,
                                                  receipts |-> <<"idempotent:no-op">>]]
       ELSE reqs' = [reqs EXCEPT ![i].at = "commit"]
    /\ UNCHANGED <<seen, pc, inp, grid, norm, blocked_slots, cpmodel, sol, result, critic, again, ms>>

\* Mutant of Commit: the key is remembered whether or not the request is a
\* dry run.
Commit_RemembersDryRun(i) ==
    /\ reqs[i].at = "commit"
    /\ seen' = remember_request(reqs[i].key)
    /\ reqs' = [reqs EXCEPT ![i].at = "done",
                            ![i].response =
                                [diff |-> Diff(reqs[i].events),
                                 receipts |-> IF reqs[i].dry_run THEN <<>>
                                              ELSE GoogleReceipts(reqs[i].events)]]
    /\ UNCHANGED <<pc, inp, grid, norm, blocked_slots, cpmodel, sol, result, critic, again, ms>>

\* Lines 25-30 of request i.
Commit(i) ==
    /\ reqs[i].at = "commit"
    /\ IF ~reqs[i].dry_run
       THEN /\ seen' = remember_request(reqs[i].key)
            /\ reqs' = [reqs EXCEPT ![i].at = "done",
                                    ![i].response = [diff |-> Diff(reqs[i].events),
                                                     receipts |-> GoogleReceipts(reqs[i].events)]]
       ELSE /\ seen' = seen
            /\ reqs' = [reqs EXCEPT ![i].at = "done",
                                    ![i].response = [diff |-> Diff(reqs[i].events),
                                                     receipts |-> <<>>]]
    /\ UNCHANGED <<pc, inp, grid, norm, blocked_slots, cpmodel, sol, result, critic, again, ms>>

InitApply ==
    /\ seen = {}
    /\ reqs = <<>>

-----------------------------------------------------------------------------
(* POST /critic, routers/critic.py.  Instants are minutes, as above; every
   instant of one request carries the same offset, so fromisoformat keeps
   their order. *)

\* Longest proposed_events and fixed_events list of one critic request.
MaxCriticEvents == 2

\* Proposed events: one that ends where a fixed event starts, one that
\* starts where fixed events end, one inside fixed events.
ProposedChoices ==
    { [task_id |-> "t1", start |-> 540, end |-> 570],
      [task_id |-> "t2", start |-> 600, end |-> 615],
      [task_id |-> "t3", start |-> 575, end |-> 590] }

FixedChoices ==
    { [id |-> "f1", start |-> 570, end |-> 600],
      [id |-> "f2", start |-> 560, end |-> 580],
      [id |-> "f3", start |-> 585, end |-> 586] }

ListsOf(S) == UNION { [1..n -> S] : n \in 0..MaxCriticEvents }

\* Mutant of NoViolation: events that only touch count as overlapping.
NoViolation_Touching(ps, pe_, fs, fe_) == pe_ < fs \/ ps > fe_

\* Line 36: pe_ <= fs or ps >= fe_
NoViolation(ps, pe_, fs, fe_) == pe_ <= fs \/ ps >= fe_

\* f"overlap:{pe.task_id}:{fe.id}"
OverlapTag(pe, fe) == <<"overlap", pe.task_id, fe.id>>

\* Lines 33-37: the violations of one proposed event against the first n
\* fixed events.
RECURSIVE ViolationsOfEvent(_, _, _)
ViolationsOfEvent(pe, fixed, n) ==
    IF n = 0 THEN <<>>
    ELSE LET before == ViolationsOfEvent(pe, fixed, n - 1)
             fe == fixed[n]
         IN IF ~NoViolation(pe.start, pe.end, fe.start, fe.end)
            THEN Append(before, OverlapTag(pe, fe))
            ELSE before

\* Lines 29-37: the violations of the first n proposed events.
RECURSIVE Violations(_, _, _)
Violations(proposed, fixed, n) ==
    IF n = 0 THEN <<>>
    ELSE Violations(proposed, fixed, n - 1)
         \o ViolationsOfEvent(proposed[n], fixed, Len(fixed))

\* Lines 38-39.
CriticResponse(proposed, fixed) ==
    LET violations == Violations(proposed, fixed, Len(proposed))
        approve == Len(violations) = 0
    IN [approve |-> approve,
        replan_request |-> IF approve THEN "None" ELSE "overlap",
        violations |-> violations]

NoCritic == [at |-> "idle", proposed_events |-> <<>>, fixed_events |-> <<>>,
             response |-> [approve |-> TRUE, replan_request |-> "None",
                           violations |-> <<>>]]

\* Lines 27-39: one request, answered.
Critic ==
    /\ critic.at = "idle"
    /\ \E proposed \in ListsOf(ProposedChoices), fixed \in ListsOf(FixedChoices) :
          critic' = [at |-> "done", proposed_events |-> proposed,
                     fixed_events |-> fixed,
                     response |-> CriticResponse(proposed, fixed)]
    /\ UNCHANGED <<pc, inp, grid, norm, blocked_slots, cpmodel, sol, result,
                   seen, reqs, again, ms>>

\* The handler keeps nothing between requests.
CriticReturn ==
    /\ critic.at = "done"
    /\ critic' = NoCritic
    /\ UNCHANGED <<pc, inp, grid, norm, blocked_slots, cpmodel, sol, result,
                   seen, reqs, again, ms>>

InitCritic == critic = NoCritic

NextCritic == Critic \/ CriticReturn

-----------------------------------------------------------------------------

(* POST /solve of the slot-indicator solver, solver/main.py.  Instants are
   minutes since midnight of the target date, without an offset, as the
   slots of line 94 are. *)

\* Longest task list of one request.
MaxSlotTasks == 2

\* self.slot_duration (line 82)
slot_duration == 15

\* The day's entry of work_hours_by_day: none (an empty string), one slot,
\* three slots.
NoHours == [start |-> None, end |-> None]

WorkHoursChoices ==
    { NoHours, [start |-> 540, end |-> 555], [start |-> 540, end |-> 585] }

\* Tasks: priority in tenths; earliest_start_dt and latest_end_dt or None.
SlotTaskChoices ==
    { [duration_min |-> 15, priority |-> 5, energy |-> "light",
       earliest_start_dt |-> None, latest_end_dt |-> None],
      [duration_min |-> 20, priority |-> 5, energy |-> "deep",
       earliest_start_dt |-> None, latest_end_dt |-> None],
      [duration_min |-> 10, priority |-> 8, energy |-> "light",
       earliest_start_dt |-> 550, latest_end_dt |-> 580],
      [duration_min |-> 50, priority |-> 8, energy |-> "deep",
       earliest_start_dt |-> None, latest_end_dt |-> None] }

\* Fixed events: one strictly inside the first slot, one that is the second
\* slot, one that does not block.
SlotEventChoices ==
    { [id |-> 1, start_dt |-> 545, end_dt |-> 550, is_blocking |-> TRUE],
      [id |-> 2, start_dt |-> 555, end_dt |-> 570, is_blocking |-> TRUE],
      [id |-> 3, start_dt |-> 540, end_dt |-> 585, is_blocking |-> FALSE] }

\* prefs.energy_profile_by_hour.get(f"{hour:02d}:00", 0.5), in tenths.
EnergyChoices == {5, 9}

(* Line 192 calls self.model.GetOrMakeIndex() without an argument.  Where
   the installed OR-Tools requires one the call raises TypeError, which
   leaves solve; where it returns a collection, each variable is either in
   it (every term enters the objective) or not (the objective is empty). *)
IndexOutcomes == {"raises", "all", "none"}

SlotTaskLists == UNION { [1..n -> SlotTaskChoices] : n \in 0..MaxSlotTasks }

\* id and title of the task at position k.
SlotTask(t, k) ==
    [id |-> k, title |-> <<"task", k>>, duration_min |-> t.duration_min,
     priority |-> t.priority, energy |-> t.energy,
     earliest_start_dt |-> t.earliest_start_dt, latest_end_dt |-> t.latest_end_dt]

\* Lines 137-143: the starts of the slots from start_time while before end_time.
RECURSIVE CreateTimeSlots(_, _)
CreateTimeSlots(start_time, end_time) ==
    IF start_time < end_time
    THEN <<start_time>> \o CreateTimeSlots(start_time + slot_duration, end_time)
    ELSE <<>>

\* Line 158, for one event and one slot.
CoversSlot(event, slot_start) ==
    LET slot_end == slot_start + slot_duration
    IN \/ (event.start_dt <= slot_start /\ slot_start < event.end_dt)
       \/ (event.start_dt < slot_end /\ slot_end <= event.end_dt)

\* Lines 145-161.
GetFixedSlots(fixed_events, slots) ==
    { i \in 1..Len(slots) :
         \E event \in fixed_events : event.is_blocking /\ CoversSlot(event, slots[i]) }

\* Line 165.
RequiredSlots(task) == (task.duration_min + slot_duration - 1) \div slot_duration

\* Mutant of SlotCount: a task may take fewer slots than it requires.
SlotCount_AtMost(selected, required_slots) == selected <= required_slots

\* Line 167: sum(task_vars[task.id].values()) == required_slots
SlotCount(selected, required_slots) == selected = required_slots

\* Lines 169-181: slot i may hold the task.
SlotAllowed(task, i, slots, fixed_slots) ==
    /\ i \notin fixed_slots
    /\ task.earliest_start_dt # None => ~(slots[i] < task.earliest_start_dt)
    /\ task.latest_end_dt # None => ~(slots[i] + slot_duration > task.latest_end_dt)

\* Lines 163-185, for the slots x[k] selected for each task k.
SlotConstraints(x, tasks, slots, fixed_slots) ==
    /\ \A k \in 1..Len(tasks) :
          /\ SlotCount(Cardinality(x[k]), RequiredSlots(tasks[k]))
          /\ \A i \in x[k] : SlotAllowed(tasks[k], i, slots, fixed_slots)
    /\ \A i \in 1..Len(slots) :
          Cardinality({ k \in 1..Len(tasks) : i \in x[k] }) <= 1

SlotSolutions(tasks, slots, fixed_slots) ==
    { x \in [1..Len(tasks) -> SUBSET (1..Len(slots))] :
         SlotConstraints(x, tasks, slots, fixed_slots) }

\* Lines 193-201: the score of one slot of a task, in hundredths;
\* energy_multiplier in tenths.
SlotScore(task, slot, energy_multiplier) ==
    LET hour == slot \div 60
    IN (task.priority * 10)
          * (IF task.energy = "deep" THEN energy_multiplier ELSE 10)
          * (IF hour < 9 \/ hour > 18 THEN 1 ELSE 10)

\* The terms of task k over the first n slots.
RECURSIVE TaskScoreUpTo(_, _, _, _, _)
TaskScoreUpTo(n, selected, task, slots, energy_multiplier) ==
    IF n = 0 THEN 0
    ELSE TaskScoreUpTo(n - 1, selected, task, slots, energy_multiplier)
         + (IF n \in selected THEN SlotScore(task, slots[n], energy_multiplier) ELSE 0)

\* Lines 187-205: sum(objective_terms) over the first n tasks.
RECURSIVE SlotObjectiveUpTo(_, _, _, _, _, _)
SlotObjectiveUpTo(n, x, tasks, slots, energy_multiplier, index) ==
    IF n = 0 \/ index = "none" THEN 0
    ELSE SlotObjectiveUpTo(n - 1, x, tasks, slots, energy_multiplier, index)
         + TaskScoreUpTo(Len(slots), x[n], tasks[n], slots, energy_multiplier)

SlotObjective(x, tasks, slots, energy_multiplier, index) ==
    SlotObjectiveUpTo(Len(tasks), x, tasks, slots, energy_multiplier, index)

SetMin(S) == CHOOSE a \in S : \A b \in S : a <= b

SetMax(S) == CHOOSE a \in S : \A b \in S : b <= a

\* Lines 211-230: the proposed events of the first n tasks.
RECURSIVE ProposedEvents(_, _, _, _)
ProposedEvents(n, x, tasks, slots) ==
    IF n = 0 THEN <<>>
    ELSE LET before == ProposedEvents(n - 1, x, tasks, slots)
         IN IF x[n] # {}
            THEN Append(before,
                        [task_id |-> tasks[n].id, title |-> tasks[n].title,
                         start_dt |-> slots[SetMin(x[n])],
                         end_dt |-> slots[SetMax(x[n])] + slot_duration])
            ELSE before

\* Lines 231-232: the titles of the first n tasks that have no slot.
RECURSIVE SlotUnscheduled(_, _, _)
SlotUnscheduled(n, x, tasks) ==
    IF n = 0 THEN <<>>
    ELSE LET before == SlotUnscheduled(n - 1, x, tasks)
         IN IF x[n] # {} THEN before ELSE Append(before, tasks[n].title)

\* Lines 92 and 118-122: [t.title for t in tasks]
NothingScheduled(tasks) ==
    [status |-> "ok", proposed_events |-> <<>>,
     unscheduled |-> [k \in 1..Len(tasks) |-> tasks[k].title],
     total_score |-> 0]

\* The exception leaves solve; line 78 answers 500.
Raised ==
    [status |-> "error", proposed_events |-> <<>>, unscheduled |-> <<>>,
     total_score |-> 0]

(* Lines 86-122: the responses solve may give.  No time limit is set, so
   the solver ends with INFEASIBLE when the model has no solution and with
   OPTIMAL and a solution of the largest objective when it has one. *)
SlotResponses(tasks, fixed_events, work_hours, energy_multiplier, index) ==
    IF work_hours = NoHours THEN { NothingScheduled(tasks) }
    ELSE LET slots == CreateTimeSlots(work_hours.start, work_hours.end)
             fixed_slots == GetFixedSlots(fixed_events, slots)
             sols == SlotSolutions(tasks, slots, fixed_slots)
             best == SetMax({ SlotObjective(y, tasks, slots, energy_multiplier, index) :
                                 y \in sols })
         IN IF index = "raises" /\ tasks # <<>> /\ slots # <<>>
            THEN { Raised }
            ELSE IF sols = {}
            THEN { NothingScheduled(tasks) }
            ELSE { [status |-> "ok",
                    proposed_events |-> ProposedEvents(Len(tasks), x, tasks, slots),
                    unscheduled |-> SlotUnscheduled(Len(tasks), x, tasks),
                    total_score |-> best] :
                      x \in { y \in sols :
                                 SlotObjective(y, tasks, slots, energy_multiplier, index)
                                    = best } }

NoSlotSolve ==
    [at |-> "idle", tasks |-> <<>>, fixed_events |-> {}, work_hours |-> NoHours,
     energy_multiplier |-> 5, index |-> "all", response |-> NothingScheduled(<<>>)]

\* One request, answered.
SlotSolve ==
    /\ ms.at = "idle"
    /\ \E ts \in SlotTaskLists, fixed_events \in SUBSET SlotEventChoices,
          work_hours \in WorkHoursChoices, energy_multiplier \in EnergyChoices,
          index \in IndexOutcomes :
         LET tasks == [k \in 1..Len(ts) |-> SlotTask(ts[k], k)]
         IN \E response \in SlotResponses(tasks, fixed_events, work_hours,
                                          energy_multiplier, index) :
               ms' = [at |-> "done", tasks |-> tasks, fixed_events |-> fixed_events,
                      work_hours |-> work_hours,
                      energy_multiplier |-> energy_multiplier, index |-> index,
                      response |-> response]
    /\ UNCHANGED <<pc, inp, grid, norm, blocked_slots, cpmodel, sol, result,
                   seen, reqs, critic, again>>

\* A TaskScheduler is made per request (line 68) and keeps nothing.
SlotReturn ==
    /\ ms.at = "done"
    /\ ms' = NoSlotSolve
    /\ UNCHANGED <<pc, inp, grid, norm, blocked_slots, cpmodel, sol, result,
                   seen, reqs, critic, again>>

NextSlots == SlotSolve \/ SlotReturn

InitOthers == again = NoAgain /\ ms = NoSlotSolve

Init == InitSolve /\ InitApply /\ InitCritic /\ InitOthers

Next == Call \/ Normalize \/ BlockEvents \/ BuildModel \/ Solve \/ Extract \/ Return

Spec == Init /\ [][Next]_vars

NextApply ==
    \/ Receive
    \/ \E i \in 1..Len(reqs) : CheckDuplicate(i)
    \/ \E i \in 1..Len(reqs) : Commit(i)

SpecApply == Init /\ [][NextApply]_vars

NextTwice == Next \/ SolveAgain

SpecTwice == Init /\ [][NextTwice]_vars

SpecSlots == Init /\ [][NextSlots]_vars

SpecCritic == Init /\ [][NextCritic]_vars

-----------------------------------------------------------------------------
(* Properties of TaskScheduler.solve (specification Spec) *)

Returned == pc = "done"

Succeeded == pc = "done" /\ result.success

IsTaskBlock(b) == b.block_type = "task"

\* The 'task' blocks of the result.
TaskBlocksOf(r) == SelectSeq(r.scheduled_blocks, IsTaskBlock)

TaskBlocks == TaskBlocksOf(result)

TaskBlockIds == { TaskBlocks[i].task_id : i \in 1..Len(TaskBlocks) }

InputIds == { inp.tasks[i].id : i \in 1..Len(inp.tasks) }

\* The input task a block was emitted for.
InputTask(id) == inp.tasks[CHOOSE i \in 1..Len(inp.tasks) : inp.tasks[i].id = id]

\* work_end as the preferences state it: extended exactly when overtime is allowed.
StatedWorkEnd ==
    IF inp.allow_overtime THEN inp.work_end + inp.max_overtime_minutes
    ELSE inp.work_end

\* C1: any two distinct task blocks of a successful result are disjoint and
\* at least one whole slot apart, for every buffer_minutes >= 0.
C1_TaskBlocksOneSlotApart ==
    Succeeded =>
        \A i, j \in 1..Len(TaskBlocks) :
            i # j =>
                \/ TaskBlocks[i].end + inp.slot_minutes <= TaskBlocks[j].start
                \/ TaskBlocks[j].end + inp.slot_minutes <= TaskBlocks[i].start

\* C1 witness: a successful result with two task blocks and buffer_minutes = 0.
C1_Witness ==
    /\ Succeeded
    /\ Len(TaskBlocks) >= 2
    /\ inp.buffer_minutes = 0

\* C2: no task block of a successful result intersects a fixed event that
\* overlaps the work window.
C2_NoTaskInFixedEvent ==
    Succeeded =>
        \A i \in 1..Len(TaskBlocks) :
            \A F \in inp.fixed_events :
                (F.end > grid.work_start /\ F.start < grid.work_end)
                    => ~(TaskBlocks[i].start < F.end /\ F.start < TaskBlocks[i].end)

\* C3: any two distinct task blocks of a successful result are at least
\* buffer_minutes apart, for every buffer_minutes and slot size.
C3_BufferMinutesBetweenTasks ==
    Succeeded =>
        \A i, j \in 1..Len(TaskBlocks) :
            i # j =>
                \/ TaskBlocks[i].end + inp.buffer_minutes <= TaskBlocks[j].start
                \/ TaskBlocks[j].end + inp.buffer_minutes <= TaskBlocks[i].start

\* C4: every task block of a successful result lies inside the work window,
\* whose end is extended by max_overtime_minutes exactly when allow_overtime.
C4_TaskBlocksInsideWindow ==
    Succeeded =>
        \A i \in 1..Len(TaskBlocks) :
            /\ inp.work_start <= TaskBlocks[i].start
            /\ TaskBlocks[i].end <= StatedWorkEnd

\* C4 witness: a task block that ends in the overtime of a window whose
\* length is no multiple of the slot size.
C4_Witness ==
    /\ Succeeded
    /\ inp.allow_overtime
    /\ (StatedWorkEnd - inp.work_start) % inp.slot_minutes # 0
    /\ \E i \in 1..Len(TaskBlocks) : TaskBlocks[i].end > inp.work_end

\* C5: in a successful result the ids of the task blocks and the ids in
\* unscheduled_tasks are disjoint and together are the input task ids.
C5_BlocksAndUnscheduledPartitionInput ==
    Succeeded =>
        /\ TaskBlockIds \cap Range(result.unscheduled_tasks) = {}
        /\ TaskBlockIds \cup Range(result.unscheduled_tasks) = InputIds

\* C6: a failure result has no blocks and lists every input task id as
\* unscheduled.
C6_FailureListsEveryInputTask ==
    (Returned /\ ~result.success) =>
        /\ result.scheduled_blocks = <<>>
        /\ Range(result.unscheduled_tasks) = InputIds

\* C7: every task block starts on a slot boundary and lasts the least
\* positive multiple of slot_minutes that is at least estimated_minutes.
C7_BlockDurationIsCeiling ==
    Succeeded =>
        \A i \in 1..Len(TaskBlocks) :
            LET T == TaskBlocks[i]
                d == T.end - T.start
                est == InputTask(T.task_id).est
            IN /\ (T.start - inp.work_start) % inp.slot_minutes = 0
               /\ d % inp.slot_minutes = 0
               /\ d >= inp.slot_minutes
               /\ d >= est
               /\ (d - inp.slot_minutes < est \/ d = inp.slot_minutes)

\* C7 witness: a block of a task whose estimated_minutes is no multiple of
\* the slot size and longer than one slot.
C7_Witness ==
    /\ Succeeded
    /\ \E i \in 1..Len(TaskBlocks) :
          LET est == InputTask(TaskBlocks[i].task_id).est
          IN est % inp.slot_minutes # 0 /\ est > inp.slot_minutes

\* C8: a task block of a task with a start_after never starts before it.
C8_NoStartBeforeStartAfter ==
    Succeeded =>
        \A i \in 1..Len(TaskBlocks) :
            LET t == InputTask(TaskBlocks[i].task_id)
            IN t.start_after # None => TaskBlocks[i].start >= t.start_after

\* C9: a task block of a task whose due_at lies before the effective
\* work_end ends at or before due_at.
C9_BlockEndsByDueAt ==
    Succeeded =>
        \A i \in 1..Len(TaskBlocks) :
            LET t == InputTask(TaskBlocks[i].task_id)
            IN (t.due_at # None /\ t.due_at < StatedWorkEnd)
                  => TaskBlocks[i].end <= t.due_at

\* C9 witness: a scheduled task whose due_at is inside the window and off
\* the slot grid.
C9_Witness ==
    /\ Succeeded
    /\ \E i \in 1..Len(TaskBlocks) :
          LET t == InputTask(TaskBlocks[i].task_id)
          IN /\ t.due_at # None
             /\ t.due_at < StatedWorkEnd
             /\ (t.due_at - inp.work_start) % inp.slot_minutes # 0

-----------------------------------------------------------------------------
(* Properties of POST /apply (specification SpecApply) *)

\* The requests that committed: not dry-run, answered with google receipts.
Committed(key) ==
    { i \in 1..Len(reqs) :
         /\ reqs[i].key = key
         /\ ~reqs[i].dry_run
         /\ reqs[i].at = "done"
         /\ reqs[i].response.receipts = GoogleReceipts(reqs[i].events) }

\* C10: of the non-dry-run requests that carry one key at most one commits.
C10_AtMostOneCommitPerKey ==
    \A key \in KeyChoices : Cardinality(Committed(key)) <= 1

\* The keys of the non-dry-run requests that committed.
CommittedKeys ==
    { reqs[i].key : i \in { j \in 1..Len(reqs) : j \in Committed(reqs[j].key) } }

NoOp == [diff |-> <<>>, receipts |-> <<"idempotent:no-op">>]

\* C11: _seen holds exactly the keys of the non-dry-run requests that
\* committed, and an answered dry-run request has its diff and no receipts;
\* so a dry run mutates nothing and makes no later request a duplicate.
C11_DryRunNeverMutates ==
    /\ seen = CommittedKeys
    /\ \A i \in 1..Len(reqs) :
          (reqs[i].dry_run /\ reqs[i].at = "done")
              => /\ reqs[i].response.receipts = <<>>
                 /\ reqs[i].response.diff = Diff(reqs[i].events)

\* C11 witness: a dry-run request with key k was answered, and a non-dry-run
\* request with the same key that arrived after it committed, the first of
\* its key to do so.
C11_Witness ==
    \E i, j \in 1..Len(reqs) :
        /\ i < j
        /\ reqs[i].key = reqs[j].key
        /\ reqs[i].dry_run /\ reqs[i].at = "done"
        /\ Committed(reqs[j].key) = {j}

\* C19: once a non-dry-run request without a header has committed
\* ("no-key" is in _seen), every non-dry-run request without a header that
\* is checked from then on is answered with an empty diff and the receipt
\* idempotent:no-op, whatever events it carries; and "no-key" stays in _seen.
C19_NoKeyRequestsShareOneKey ==
    [][ /\ "no-key" \in seen => "no-key" \in seen'
        /\ \A i \in 1..Len(reqs) :
              ( /\ "no-key" \in seen
                /\ reqs[i].key = "no-key"
                /\ ~reqs[i].dry_run
                /\ reqs[i].at = "check"
                /\ reqs'[i].at # "check" )
                  => /\ reqs'[i].at = "done"
                     /\ reqs'[i].response = NoOp ]_vars

\* C19 witness: a request without a header committed and a non-dry-run
\* request without a header that arrived later was answered as a no-op.
C19_Witness ==
    \E i, j \in 1..Len(reqs) :
        /\ i < j
        /\ reqs[i].key = "no-key" /\ i \in Committed("no-key")
        /\ reqs[j].key = "no-key" /\ ~reqs[j].dry_run
        /\ reqs[j].at = "done" /\ reqs[j].response = NoOp

-----------------------------------------------------------------------------
(* Properties of POST /critic (specification SpecCritic) *)

\* Strict overlap of a proposed and a fixed event.
StrictOverlap(pe, fe) == pe.start < fe.end /\ fe.start < pe.end

\* The overlapping pairs of a request, by position in the two lists.
OverlappingPairs ==
    { <<i, j>> \in (1..Len(critic.proposed_events)) \X (1..Len(critic.fixed_events)) :
         StrictOverlap(critic.proposed_events[i], critic.fixed_events[j]) }

\* C12: approve is true iff no proposed event strictly overlaps a fixed
\* event, iff violations is empty, and violations holds one
\* overlap:<task_id>:<fixed_id> entry per overlapping pair.
C12_ApproveIffNoStrictOverlap ==
    critic.at = "done" =>
        /\ critic.response.approve <=> OverlappingPairs = {}
        /\ critic.response.approve <=> critic.response.violations = <<>>
        /\ Len(critic.response.violations) = Cardinality(OverlappingPairs)
        /\ Range(critic.response.violations) =
              { <<"overlap", critic.proposed_events[q[1]].task_id,
                  critic.fixed_events[q[2]].id>> : q \in OverlappingPairs }

\* C12 witness: a request approved although a proposed event touches a
\* fixed event at an endpoint.
C12_Witness ==
    /\ critic.at = "done"
    /\ critic.response.approve
    /\ \E i \in 1..Len(critic.proposed_events), j \in 1..Len(critic.fixed_events) :
          critic.proposed_events[i].end = critic.fixed_events[j].start

-----------------------------------------------------------------------------
(* Two calls of solve on one input (specification SpecTwice) *)

BothOptimal == pc = "done" /\ sol.status = "OPTIMAL" /\ again.status = "OPTIMAL"

\* The objective value of the first call's solution.
FirstObjective == Objective(sol.value, norm.tasks, grid, inp.slot_minutes, cpmodel)

\* C13 as stated: two calls on one input that both end OPTIMAL give the
\* same objective value and the same (task_id, duration) pairs.
C13_SameObjectiveAndPairs ==
    BothOptimal =>
        /\ again.objective = FirstObjective
        /\ again.pairs = DurationPairs(result.scheduled_blocks)

\* C13 amended: two calls on one input that both end OPTIMAL give the same
\* objective value.
C13_SameObjective == BothOptimal => again.objective = FirstObjective

\* C13 witness: two OPTIMAL calls on one input whose task blocks are for
\* different tasks of equal priority.
C13_Witness ==
    /\ BothOptimal
    /\ again.objective = FirstObjective
    /\ again.pairs # DurationPairs(result.scheduled_blocks)
    /\ \E i, j \in 1..Len(inp.tasks) :
          /\ i # j
          /\ inp.tasks[i].prio = inp.tasks[j].prio
          /\ inp.tasks[i].id \in TaskBlockIds
          /\ inp.tasks[j].id \notin TaskBlockIds

-----------------------------------------------------------------------------
(* Further properties of solve (specification Spec) *)

\* C14: every task block of a successful result is at least buffer_minutes
\* away from every fixed event, before it or after it.
C14_BufferAroundFixedEvents ==
    Succeeded =>
        \A i \in 1..Len(TaskBlocks) :
            \A F \in inp.fixed_events :
                \/ TaskBlocks[i].end + inp.buffer_minutes <= F.start
                \/ F.end + inp.buffer_minutes <= TaskBlocks[i].start

\* The morning term of task i in the objective value of the solution a.
MorningCredit(a, i) ==
    MaxOf({ Bit(mb) * cpmodel.deep_work_weight :
               mb \in MorningValues(a, norm.tasks, i, cpmodel.morning_end_slot) })

\* C16: in an OPTIMAL solution the objective holds the morning bonus of a
\* task only if the task is scheduled and ends by the morning's last slot.
C16_MorningBonusOnlyWhenScheduledInMorning ==
    (pc \in {"extract", "done"} /\ sol.status = "OPTIMAL") =>
        \A i \in 1..Len(norm.tasks) :
            MorningCredit(sol.value, i) > 0 =>
                /\ sol.value[i].scheduled
                /\ sol.value[i].start + norm.tasks[i].duration_slots
                      <= cpmodel.morning_end_slot

\* due_slot of a task with a due_at (line 252).
DueSlot(t) == (t.due_at - grid.work_start) \div inp.slot_minutes

\* A task whose due_at is inside the horizon, that fits the work window
\* after its earliest slot, and that cannot end by its due slot.
LateOnly(t) ==
    /\ t.due_at # None
    /\ DueSlot(t) < grid.total_slots
    /\ t.earliest_slot + t.duration_slots <= grid.total_slots
    /\ t.earliest_slot + t.duration_slots > DueSlot(t)

\* C17: a task that fits the work window but cannot end by its due_at can
\* be scheduled to end after due_at, with its tardiness penalty in the
\* objective: the model has a solution that does so.
C17_LateTaskCanBeScheduledTardy ==
    pc = "solve" =>
        \A i \in 1..Len(inp.tasks) :
            LET t == Annotate(inp.tasks[i], grid, inp.slot_minutes)
            IN LateOnly(t) =>
                  \E k \in 1..Len(norm.tasks) :
                     \E a \in Solutions(norm.tasks, blocked_slots, cpmodel.buffer_slots) :
                        /\ norm.tasks[k].id = t.id
                        /\ a[k].scheduled
                        /\ a[k].start + t.duration_slots > DueSlot(t)
                        /\ TRUE \in TardyValues(a, norm.tasks, k, grid, inp.slot_minutes)

-----------------------------------------------------------------------------
(* Properties of the slot-indicator solver (specification SpecSlots) *)

Answered == ms.at = "done" /\ ms.response.status = "ok"

\* C15: no proposed event of a response overlaps a blocking fixed event.
C15_NoProposedEventInFixedEvent ==
    Answered =>
        \A n \in 1..Len(ms.response.proposed_events) :
            \A F \in ms.fixed_events :
                LET E == ms.response.proposed_events[n]
                IN F.is_blocking => ~(E.start_dt < F.end_dt /\ E.end_dt > F.start_dt)

\* The input tasks that have a proposed event.
ProposedIds ==
    { ms.response.proposed_events[n].task_id :
         n \in 1..Len(ms.response.proposed_events) }

\* C18: in a response either every input task has a proposed event, or
\* there is no proposed event and every task's title is in unscheduled.
C18_AllOrNothing ==
    Answered =>
        \/ \A k \in 1..Len(ms.tasks) : ms.tasks[k].id \in ProposedIds
        \/ /\ ms.response.proposed_events = <<>>
           /\ \A k \in 1..Len(ms.tasks) :
                 ms.tasks[k].title \in Range(ms.response.unscheduled)

\* C18 witness: two tasks in a three-slot window, one of one slot and one
\* of four; nothing is proposed and both are unscheduled.
C18_Witness ==
    /\ Answered
    /\ ms.work_hours = [start |-> 540, end |-> 585]
    /\ ms.fixed_events = {}
    /\ Len(ms.tasks) = 2
    /\ RequiredSlots(ms.tasks[1]) = 1
    /\ RequiredSlots(ms.tasks[2]) = 4
    /\ ms.response.proposed_events = <<>>
    /\ Len(ms.response.unscheduled) = 2

====
